---- MODULE Spec2Model ----
(***************************************************************************)
(* A model of the FileExample repository: an in-memory tree of Drive,      *)
(* Directory and File items held in a closed variant (FileItem), with      *)
(* bounds-checked indexed access, path access, renaming and recursive      *)
(* traversal (first revision, FileItem derives from the variant), and the  *)
(* variant-alias revision with unchecked Get, Add, Remove and the free     *)
(* function GetPath.                                                       *)
(*                                                                         *)
(* Objects live in a heap: a function from object identities to the        *)
(* object's fields.  A C++ reference FileItem& is an object identity, a    *)
(* std::vector<FileItem> is the sequence of the identities of the          *)
(* elements it owns.                                                       *)
(***************************************************************************)
EXTENDS Integers, Sequences, FiniteSets, TLC

VARIABLES
    heap,   \* object identity -> the fields of the Drive, Directory or File
    last,   \* the latest call: its arguments and what it returned or threw
    gp      \* the activation of the free function GetPath (variant-alias revision)

vars == <<heap, last, gp>>

\* ------------------------------------------------------------------ bounds

\* The largest number of items a tree holds.
MaxNodes == 3

\* The longest Path handed to an operation.
MaxPathLen == 2

\* ------------------------------------------------------------ value domains

\* The object the tests build first: FileItem drive_a.
Root == 1

Names == {"Aardvark", "Antalope"}

DriveLetters == {"a"}

\* Indices handed to the accessors: negative, in range and too large (a
\* container of a tree of MaxNodes items holds at most MaxNodes - 1 children).
IdxSet == -1 .. (MaxNodes - 1)

RECURSIVE SeqsUpTo(_, _)
SeqsUpTo(S, n) ==
    IF n = 0 THEN {<<>>}
    ELSE LET shorter == SeqsUpTo(S, n - 1)
         IN  shorter \cup {Append(p, i) : p \in {q \in shorter : Len(q) = n - 1}, i \in S}

Paths == SeqsUpTo(IdxSet, MaxPathLen)

\* ------------------------------------------------------ the three item kinds

\* class Drive : ContainerFileItem, with m_drive_letter.
Drive(id, contents) ==
    [kind |-> "Drive", m_drive_letter |-> id, m_contents |-> contents]

\* class Directory : ContainerFileItem, NamedFileItem.
Directory(name, list) ==
    [kind |-> "Directory", m_name |-> name, m_contents |-> list]

\* class File : NamedFileItem.
File(name) ==
    [kind |-> "File", m_name |-> name]

\* std::is_base_of_v<ContainerFileItem, FileItemType>
IsContainer(item) == item.kind \in {"Drive", "Directory"}

\* std::is_base_of_v<NamedFileItem, FileItemType>
IsNamed(item) == item.kind \in {"Directory", "File"}

\* ----------------------------------------------------------------- results

\* A call returns a reference (node) or throws (err).
Ok(n) == [err |-> "none", node |-> n]

Throw(e) == [err |-> e, node |-> 0]

\* ---------------------------------------------------------------- GetName

\* Drive::GetName and NamedFileItem::GetName.
GetName(item) ==
    IF item.kind = "Drive" THEN item.m_drive_letter ELSE item.m_name

\* ------------------------------------------------------- indexed access

ContainerGetOffByOne(item, idx) ==
    IF idx < 0 \/ idx > Len(item.m_contents) THEN Throw("NonExist")
    ELSE IF idx = Len(item.m_contents) THEN Ok(0)
    ELSE Ok(item.m_contents[idx + 1])

\* ContainerFileItem::Get(int idx)
ContainerGet(item, idx) ==
    IF idx < 0 \/ idx >= Len(item.m_contents) THEN Throw("NonExist")
    ELSE Ok(item.m_contents[idx + 1])

\* FileItem::Get(FileItemType& fi, int idx)
Get(fi, idx) ==
    IF IsContainer(fi) THEN ContainerGet(fi, idx) ELSE Throw("NonExist")

\* FileItem::operator[](int idx) on the item n of heap h.
Index(h, n, idx) == Get(h[n], idx)

\* ---------------------------------------------------------- path access

RECURSIVE PathLoop(_, _, _)
\* The while loop of FileItem::operator[](const Path&): current, remaining.
PathLoop(h, current, remaining) ==
    IF remaining = <<>> THEN Ok(current)
    ELSE LET step == Index(h, current, remaining[1])
         IN  IF step.err # "none" THEN step
             ELSE PathLoop(h, step.node, Tail(remaining))

PathIndexSkipsFailure(h, n, path) ==
    IF path # <<>> /\ Index(h, n, path[1]).err # "none"
    THEN PathLoop(h, n, Tail(path))
    ELSE PathLoop(h, n, path)

\* FileItem::operator[](const Path& path) on the item n of heap h.
PathIndex(h, n, path) == PathLoop(h, n, path)

\* ------------------------------------------------------------------ rename

SetNameDropsNew(item, n) == item

\* NamedFileItem::SetName
SetName(item, n) == [item EXCEPT !.m_name = n]

RenameItemRelabelsDrive(fi, new_name) ==
    IF IsNamed(fi) THEN [err |-> "none", item |-> SetName(fi, new_name)]
    ELSE [err |-> "CannotRename",
          item |-> [fi EXCEPT !.m_drive_letter = new_name]]

\* FileItem::Rename(FileItemType& fi, std::string_view new_name): the item
\* after the call, and whether the call threw.
RenameItem(fi, new_name) ==
    IF IsNamed(fi) THEN [err |-> "none", item |-> SetName(fi, new_name)]
    ELSE [err |-> "CannotRename", item |-> fi]

RenameClearsContents(h, n, new_name) ==
    LET r == RenameItem(h[n], new_name)
    IN  [heap |-> [h EXCEPT ![n] =
                     IF IsContainer(r.item)
                     THEN [r.item EXCEPT !.m_contents = <<>>] ELSE r.item],
         res  |-> IF r.err = "none" THEN Ok(n) ELSE Throw(r.err)]

\* FileItem::Rename(std::string_view new_name) on the item n of heap h: the
\* heap after the call and the call's outcome.
Rename(h, n, new_name) ==
    LET r == RenameItem(h[n], new_name)
    IN  [heap |-> [h EXCEPT ![n] = r.item],
         res  |-> IF r.err = "none" THEN Ok(n) ELSE Throw(r.err)]

RenameAtCopy(h, n, path, new_name) ==
    [heap |-> h, res |-> PathIndex(h, n, path)]

RenameAtMarksStart(h, n, path, new_name) ==
    LET target == PathIndex(h, n, path)
    IN  IF target.err # "none"
        THEN [heap |-> Rename(h, n, new_name).heap, res |-> target]
        ELSE Rename(h, target.node, new_name)

\* drive_a[path].Rename(new_name), as in TEST(FileItem,GetPath): the path is
\* resolved, then the item it yields is renamed.
RenameAt(h, n, path, new_name) ==
    LET target == PathIndex(h, n, path)
    IN  IF target.err # "none" THEN [heap |-> h, res |-> target]
        ELSE Rename(h, target.node, new_name)

\* --------------------------------------------------------------- traversal

\* What a visitor fn(item, path) observes of one invocation.
Visit(item, path) == [kind |-> item.kind, name |-> GetName(item), path |-> path]

RECURSIVE RecurseDispatch(_, _, _)
RECURSIVE RecurseProcess(_, _, _)
RECURSIVE ContainerVisit(_, _, _, _)

\* ContainerFileItem::Visit applied to the lambda of the process overload:
\* for each c of m_contents: path.push_back(i++); fi.Recurse(fn, path);
\* path.pop_back().
ContainerVisit(h, contents, path, i) ==
    IF contents = <<>> THEN <<>>
    ELSE RecurseDispatch(h, Head(contents), Append(path, i))
         \o ContainerVisit(h, Tail(contents), path, i + 1)

RecurseProcessCountsFromOne(h, n, path) ==
    IF IsContainer(h[n]) THEN ContainerVisit(h, h[n].m_contents, path, 1)
    ELSE <<>>

\* FileItem::Recurse(Fn&& fn, const FileItemType& item, Path path)
RecurseProcess(h, n, path) ==
    IF IsContainer(h[n]) THEN ContainerVisit(h, h[n].m_contents, path, 0)
    ELSE <<>>

\* FileItem::Recurse(Fn&& fn, Path path): fn(item, path), then the process
\* overload.
RecurseDispatch(h, n, path) ==
    <<Visit(h[n], path)>> \o RecurseProcess(h, n, path)

RecursePostOrder(h, n) ==
    LET pre == RecurseDispatch(h, n, <<>>)
    IN  Tail(pre) \o <<Head(pre)>>

\* FileItem::Recurse(Fn&& fn): the sequence of visitor invocations.
Recurse(h, n) == RecurseDispatch(h, n, <<>>)

RECURSIVE MainRecurseItem(_, _, _)
RECURSIVE MainRecurseContainer(_, _, _, _)

\* main.cpp, Recurse(Fn&& fn, const ContainerFileItem& item, Path path)
MainRecurseContainer(h, contents, path, i) ==
    IF contents = <<>> THEN <<>>
    ELSE MainRecurseItem(h, Head(contents), Append(path, i))
         \o MainRecurseContainer(h, Tail(contents), path, i + 1)

\* main.cpp, the overloads of Recurse for Drive, Directory and File.
MainRecurseItem(h, n, path) ==
    CASE h[n].kind = "Drive" ->
           <<Visit(h[n], path)>> \o MainRecurseContainer(h, h[n].m_contents, path, 0)
      [] h[n].kind = "Directory" ->
           <<Visit(h[n], path)>> \o MainRecurseContainer(h, h[n].m_contents, path, 0)
      [] h[n].kind = "File" ->
           <<Visit(h[n], path)>>

\* main.cpp, FileItem::Recurse(Fn&& fn)
MainRecurse(h, n) == MainRecurseItem(h, n, <<>>)

\* ------------------------------------------- variant-alias revision: access

\* What reading outside an object can yield: the run dies, or the bytes found
\* there are used as a reference to some object.
Wild(h) == {Throw("crash")} \cup {Ok(m) : m \in DOMAIN h}

\* ContainerFileItem<Derived>::Get(int idx): m_contents[idx], unchecked.
ContainerGetUnchecked(h, item, idx) ==
    IF 0 <= idx /\ idx < Len(item.m_contents)
    THEN {Ok(item.m_contents[idx + 1])}
    ELSE Wild(h)

\* File::Get(int idx): throw NonExist{}
FileGet(item, idx) == {Throw("NonExist")}

\* obj.Get(idx) under std::visit: the outcomes the call can have.
VariantGet(h, n, idx) ==
    IF IsContainer(h[n]) THEN ContainerGetUnchecked(h, h[n], idx)
    ELSE FileGet(h[n], idx)

\* path[0] of a std::span<int>: the element, or for an empty span whatever
\* lies there.
SpanFront(path) == IF path # <<>> THEN {path[1]} ELSE IdxSet

\* path.subspan(1)
Subspan1(path) == IF path # <<>> THEN Tail(path) ELSE <<>>

\* One activation of GetPath(item, path): obj.Get(path[0]) and the argument of
\* the recursive call, or the exception that leaves it.
GetPathActivation(h, cur, rem) ==
    UNION {{[idx |-> i, got |-> g] : g \in VariantGet(h, cur, i)} : i \in SpanFront(rem)}

\* ---------------------------------- variant-alias revision: Add and Remove

RECURSIVE Subtree(_, _)
\* The objects a FileItem owns, itself included.
Subtree(h, n) ==
    {n} \cup (IF IsContainer(h[n])
              THEN UNION {Subtree(h, h[n].m_contents[k]) : k \in 1 .. Len(h[n].m_contents)}
              ELSE {})

\* The storage a new vector element gets.
NewObject(h) == CHOOSE i \in 1 .. (Cardinality(DOMAIN h) + 1) : i \notin DOMAIN h

AddInFront(h, n, item) ==
    LET new == NewObject(h)
    IN  [i \in DOMAIN h \cup {new} |->
            IF i = new THEN item
            ELSE IF i = n THEN [h[n] EXCEPT !.m_contents = <<new>> \o @]
            ELSE h[i]]

\* ContainerFileItem<Derived>::Add(const FileItem& item):
\* m_contents.emplace_back(item)
Add(h, n, item) ==
    LET new == NewObject(h)
    IN  [i \in DOMAIN h \cup {new} |->
            IF i = new THEN item
            ELSE IF i = n THEN [h[n] EXCEPT !.m_contents = Append(@, new)]
            ELSE h[i]]

\* m_contents.erase(position k) for a position of the vector: the element
\* and what it owns are destroyed, the later elements move down.
Erase(h, n, k) ==
    LET dead == Subtree(h, h[n].m_contents[k])
        c    == h[n].m_contents
    IN  [i \in DOMAIN h \ dead |->
            IF i = n
            THEN [h[n] EXCEPT !.m_contents =
                     SubSeq(c, 1, k - 1) \o SubSeq(c, k + 1, Len(c))]
            ELSE h[i]]

RemoveLeavesHole(h, n, idx) ==
    IF 0 <= idx /\ idx < Len(h[n].m_contents)
    THEN {[heap |-> Erase(h, n, Len(h[n].m_contents)), res |-> Ok(n)]}
    ELSE {[heap |-> h, res |-> Throw("crash")]}

\* ContainerFileItem<Derived>::Remove(int idx):
\* m_contents.erase(m_contents.begin()+idx), unchecked.  Outside the vector
\* the run dies or, with erase(end()), the last element is dropped.
Remove(h, n, idx) ==
    IF 0 <= idx /\ idx < Len(h[n].m_contents)
    THEN {[heap |-> Erase(h, n, idx + 1), res |-> Ok(n)]}
    ELSE {[heap |-> h, res |-> Throw("crash")]}
         \cup (IF idx = Len(h[n].m_contents) /\ idx > 0
               THEN {[heap |-> Erase(h, n, idx), res |-> Ok(n)]}
               ELSE {})

\* ------------------------------------------------------------ construction

RECURSIVE Ascending(_)
\* A set of object identities in construction order.
Ascending(S) ==
    IF S = {} THEN <<>>
    ELSE LET m == CHOOSE x \in S : \A y \in S : x <= y
         IN  <<m>> \o Ascending(S \ {m})

\* The kinds the tests list inside a container: the drive is the outermost
\* item.
ChildKinds == {"Directory", "File"}

\* The tree nested construction builds from n items: item 1 is the drive the
\* tests name drive_a, every other item is listed in the initializer list of
\* the container parent[j], built before it.
Construct(n, parent, kind, name, letter) ==
    [i \in 1 .. n |->
        LET contents == Ascending({j \in 2 .. n : parent[j] = i})
            k        == IF i = Root THEN "Drive" ELSE kind[i]
        IN  CASE k = "Drive"     -> Drive(letter[i], contents)
              [] k = "Directory" -> Directory(name[i], contents)
              [] k = "File"      -> File(name[i])]

Trees ==
    UNION {
      {Construct(n, parent, kind, name, letter) :
          parent \in {f \in [2 .. n -> 1 .. n] :
                        \A j \in 2 .. n : f[j] < j},
          kind   \in [2 .. n -> ChildKinds],
          name   \in [1 .. n -> Names],
          letter \in [1 .. n -> DriveLetters]}
      : n \in 1 .. MaxNodes}

\* Only a container has an initializer list.
Constructible(h) ==
    \A i \in DOMAIN h : i = Root \/ \E j \in DOMAIN h :
        IsContainer(h[j]) /\ \E k \in 1 .. Len(h[j].m_contents) : h[j].m_contents[k] = i

\* ------------------------------------------------------------------- state

\* The record of a call: the operation, the item it is called on, its
\* arguments, the reference it returned or the exception it threw, the
\* reference held from before the call, and the visitor's invocations.
Call(op, n, idx, path, name, res, ref, visits) ==
    [op |-> op, node |-> n, idx |-> idx, path |-> path, name |-> name,
     res |-> res, ref |-> ref, visits |-> visits]

GpIdle == [status |-> "idle", cur |-> 0, rem |-> <<>>]

\* No call is under way and no result is held.
NoCall == Call("none", 0, 0, <<>>, "", Ok(0), 0, <<>>)

\* Undefined behaviour ended the run.
Crashed == last.res.err = "crash" \/ gp.status = "crash"

\* The client is between two statements.
Ready == last = NoCall /\ gp = GpIdle

Init ==
    /\ heap \in {h \in Trees : Constructible(h)}
    /\ last = NoCall
    /\ gp = GpIdle

\* The statement that made the call ends (ASSERT_THROW, ASSERT_STREQ, the
\* expression statement drive_a[...].Rename(...)): what it returned or caught
\* is dropped and the next statement can run.
EndStatement ==
    /\ last # NoCall
    /\ ~Crashed
    /\ gp.status # "run"
    /\ last' = NoCall
    /\ gp' = GpIdle
    /\ UNCHANGED heap

\* ------------------------------------------ first revision: the operations

\* n[idx]
DoIndex(n, idx) ==
    /\ Ready
    /\ last' = Call("Index", n, idx, <<>>, "", Index(heap, n, idx), 0, <<>>)
    /\ UNCHANGED <<heap, gp>>

\* n[path]
DoPath(n, path) ==
    /\ Ready
    /\ last' = Call("Path", n, 0, path, "", PathIndex(heap, n, path), 0, <<>>)
    /\ UNCHANGED <<heap, gp>>

\* n.Rename(new_name)
DoRename(n, new_name) ==
    LET r == Rename(heap, n, new_name)
    IN  /\ Ready
        /\ heap' = r.heap
        /\ last' = Call("Rename", n, 0, <<>>, new_name, r.res, n, <<>>)
        /\ UNCHANGED gp

\* const auto& file = n[path]; n[path].Rename(new_name);  the reference
\* taken first is kept (0 when taking it threw).
DoRenameAt(n, path, new_name) ==
    LET before == PathIndex(heap, n, path)
        r      == RenameAt(heap, n, path, new_name)
    IN  /\ Ready
        /\ heap' = r.heap
        /\ last' = Call("RenameAt", n, 0, path, new_name, r.res, before.node, <<>>)
        /\ UNCHANGED gp

\* n.Recurse(fn), part_000
DoRecurse(n) ==
    /\ Ready
    /\ last' = Call("Recurse", n, 0, <<>>, "", Ok(n), 0, Recurse(heap, n))
    /\ UNCHANGED <<heap, gp>>

\* n.Recurse(fn), main.cpp
DoMainRecurse(n) ==
    /\ Ready
    /\ last' = Call("MainRecurse", n, 0, <<>>, "", Ok(n), 0, MainRecurse(heap, n))
    /\ UNCHANGED <<heap, gp>>

\* One statement at a time: a call is made when the client is between two
\* statements.
Next ==
    \/ Ready /\ \E n \in DOMAIN heap, idx \in IdxSet : DoIndex(n, idx)
    \/ Ready /\ \E n \in DOMAIN heap, path \in Paths : DoPath(n, path)
    \/ Ready /\ \E n \in DOMAIN heap, new_name \in Names : DoRename(n, new_name)
    \/ Ready /\ \E n \in DOMAIN heap, path \in Paths, new_name \in Names :
                   DoRenameAt(n, path, new_name)
    \/ Ready /\ \E n \in DOMAIN heap : DoRecurse(n)
    \/ Ready /\ \E n \in DOMAIN heap : DoMainRecurse(n)
    \/ EndStatement

Spec == Init /\ [][Next]_vars

\* ---------------------------------- variant-alias revision: the operations

\* The items handed to Add.
NewItems ==
    {File(name) : name \in Names}
    \cup {Directory(name, <<>>) : name \in Names}

\* container.Add(item)
DoAdd(n, item) ==
    /\ Ready
    /\ IsContainer(heap[n])
    /\ Cardinality(DOMAIN heap) < MaxNodes
    /\ heap' = Add(heap, n, item)
    /\ last' = Call("Add", n, 0, <<>>, GetName(item), Ok(n), NewObject(heap), <<>>)
    /\ gp' = GpIdle

\* container.Remove(idx)
DoRemove(n, idx) ==
    /\ Ready
    /\ IsContainer(heap[n])
    /\ \E r \in Remove(heap, n, idx) :
          /\ heap' = r.heap
          /\ last' = Call("Remove", n, idx, <<>>, "", r.res, 0, <<>>)
    /\ gp' = GpIdle

\* obj.Get(idx)
DoGet(n, idx) ==
    /\ Ready
    /\ \E r \in VariantGet(heap, n, idx) :
          last' = Call("Get", n, idx, <<>>, "", r, 0, <<>>)
    /\ gp' = GpIdle
    /\ UNCHANGED heap

\* GetPath(item, path) is called.
GetPathCall(n, path) ==
    /\ Ready
    /\ last' = Call("GetPath", n, 0, path, "", Ok(0), 0, <<>>)
    /\ gp' = [status |-> "run", cur |-> n, rem |-> path]
    /\ UNCHANGED heap

\* The body of GetPath runs once: std::visit, obj.Get(path[0]), and either
\* the exception leaves every activation or GetPath is entered again.
GetPathStep ==
    /\ gp.status = "run"
    /\ \E a \in GetPathActivation(heap, gp.cur, gp.rem) :
          gp' = IF a.got.err # "none"
                THEN [status |-> a.got.err, cur |-> gp.cur, rem |-> gp.rem]
                ELSE [status |-> "run", cur |-> a.got.node, rem |-> Subspan1(gp.rem)]
    /\ UNCHANGED <<heap, last>>

NextMut ==
    \/ Ready /\ \E n \in DOMAIN heap, item \in NewItems : DoAdd(n, item)
    \/ Ready /\ \E n \in DOMAIN heap, idx \in IdxSet : DoRemove(n, idx)
    \/ Ready /\ \E n \in DOMAIN heap, idx \in IdxSet : DoGet(n, idx)
    \/ Ready /\ \E n \in DOMAIN heap, path \in Paths : GetPathCall(n, path)
    \/ GetPathStep
    \/ EndStatement

SpecMut == Init /\ [][NextMut]_vars

\* ============================================================== properties

\* The children of an item, read off its fields.
ChildrenOf(h, n) ==
    IF h[n].kind \in {"Drive", "Directory"} THEN h[n].m_contents ELSE <<>>

RECURSIVE NodeAt(_, _, _)
\* The descendant of n that the child positions p lead to, 0 when there is
\* none.
NodeAt(h, n, p) ==
    IF p = <<>> THEN n
    ELSE IF p[1] >= 0 /\ p[1] < Len(ChildrenOf(h, n))
         THEN NodeAt(h, ChildrenOf(h, n)[p[1] + 1], Tail(p))
         ELSE 0

RECURSIVE ValidPaths(_, _)
\* The positions of all descendants of n, n included.
ValidPaths(h, n) ==
    {<<>>} \cup UNION {{<<k - 1>> \o q : q \in ValidPaths(h, ChildrenOf(h, n)[k])}
                        : k \in 1 .. Len(ChildrenOf(h, n))}

\* p comes before q in pre-order: p is a proper prefix of q, or p turns to a
\* lower index where they part.
PreOrderBefore(p, q) ==
    LET m      == IF Len(p) < Len(q) THEN Len(p) ELSE Len(q)
        differ == {k \in 1 .. m : p[k] # q[k]}
    IN  IF differ = {} THEN Len(p) < Len(q)
        ELSE LET k == CHOOSE x \in differ : \A y \in differ : x <= y
             IN  p[k] < q[k]

RenameOps == {"Rename", "RenameAt"}

\* C1: n[idx] returns the child stored at position idx exactly when n holds a
\* Drive or Directory and 0 <= idx < number of children; in every other case
\* it throws NonExist and yields no node.
C1_IndexContract ==
    last.op = "Index" =>
        LET item == heap[last.node]
        IN  IF item.kind \in {"Drive", "Directory"}
               /\ 0 <= last.idx /\ last.idx < Len(item.m_contents)
            THEN last.res = [err |-> "none", node |-> item.m_contents[last.idx + 1]]
            ELSE last.res = [err |-> "NonExist", node |-> 0]

C1_Witness ==
    /\ last.op = "Index"
    /\ last.idx = 1
    /\ last.res.err = "none"
    /\ last.res.node = heap[last.node].m_contents[2]

\* C2: N[p] is the left-to-right fold of the single-index accessor over p:
\* the empty path yields N, [i0, ..., ik] yields what (N[i0])[[i1, ..., ik]]
\* yields, and the first failing step throws NonExist.
C2_PathFold ==
    last.op = "Path" =>
        /\ last.path = <<>> => last.res = [err |-> "none", node |-> last.node]
        /\ last.path # <<>> =>
              LET first == Index(heap, last.node, last.path[1])
              IN  IF first.err # "none"
                  THEN last.res = [err |-> "NonExist", node |-> 0]
                  ELSE last.res = PathIndex(heap, first.node, Tail(last.path))
        /\ LET at == NodeAt(heap, last.node, last.path)
           IN  IF at # 0 THEN last.res = [err |-> "none", node |-> at]
               ELSE last.res = [err |-> "NonExist", node |-> 0]

C2_Witness ==
    /\ last.op = "Path"
    /\ Len(last.path) = 2
    /\ last.res.err = "none"
    /\ heap[last.res.node].kind = "File"

\* C3: after root[p].Rename(n2) succeeds, GetName yields n2 both through the
\* reference obtained by resolving p before the rename and through a later
\* resolution of p.
C3_RenameVisible ==
    (last.op = "RenameAt" /\ last.res.err = "none") =>
        LET again == PathIndex(heap, last.node, last.path)
        IN  /\ last.ref # 0
            /\ GetName(heap[last.ref]) = last.name
            /\ again.err = "none"
            /\ again.node = last.ref
            /\ GetName(heap[again.node]) = last.name

C3_Witness ==
    /\ last.op = "RenameAt"
    /\ last.node = Root
    /\ last.path = <<0, 0>>
    /\ last.res.err = "none"
    /\ last.name = "Antalope"
    /\ heap[last.ref].kind = "File"
    /\ heap[last.ref].m_name = "Antalope"

\* C4: Rename on a Drive throws CannotRename; the drive's name is still its
\* single-character identifier and its children (order, kinds, names) are
\* unchanged.
C4_DriveCannotRename ==
    [][(last'.op \in RenameOps /\ last'.ref # 0 /\ heap[last'.ref].kind = "Drive") =>
          LET d == last'.ref
          IN  /\ last'.res.err = "CannotRename"
              /\ heap'[d].kind = "Drive"
              /\ GetName(heap'[d]) = GetName(heap[d])
              /\ GetName(heap'[d]) \in DriveLetters
              /\ heap'[d].m_contents = heap[d].m_contents
              /\ \A k \in 1 .. Len(heap[d].m_contents) :
                    LET c == heap[d].m_contents[k]
                    IN  /\ heap'[c].kind = heap[c].kind
                        /\ GetName(heap'[c]) = GetName(heap[c])
      ]_vars

C4_Witness ==
    /\ last.op = "Rename"
    /\ last.res.err = "CannotRename"
    /\ heap[last.node].kind = "Drive"
    /\ Len(heap[last.node].m_contents) = 2

C6_RenameFrame ==
    [][(last'.op \in RenameOps /\ last'.res.err = "none") =>
          LET t == last'.res.node
          IN  /\ DOMAIN heap' = DOMAIN heap
              /\ \A i \in DOMAIN heap : i # t => heap'[i] = heap[i]
              /\ heap'[t].kind = heap[t].kind
              /\ ChildrenOf(heap', t) = ChildrenOf(heap, t)
              /\ heap'[t] = [heap[t] EXCEPT !.m_name = last'.name]
      ]_vars

C6_Witness ==
    /\ last.op = "RenameAt"
    /\ last.res.err = "none"
    /\ heap[last.res.node].kind = "Directory"
    /\ Len(heap[last.res.node].m_contents) = 1
    /\ heap[last.res.node].m_name = "Antalope"

\* The call a record describes, made again on heap h.
Repeat(h, c) ==
    CASE c.op = "Index"    -> Index(h, c.node, c.idx)
      [] c.op = "Path"     -> PathIndex(h, c.node, c.path)
      [] c.op = "Rename"   -> Rename(h, c.node, c.name).res
      [] c.op = "RenameAt" -> RenameAt(h, c.node, c.path, c.name).res

\* C7: an indexed access, path access or Rename that fails leaves the whole
\* tree unchanged, so the same call made again fails with the same error.
C7_FailureChangesNothing ==
    [][(last'.op \in {"Index", "Path", "Rename", "RenameAt"} /\ last'.res.err # "none") =>
          /\ heap' = heap
          /\ last'.res.err \in {"NonExist", "CannotRename"}
          /\ Repeat(heap', last').err = last'.res.err
      ]_vars

C7_Witness ==
    /\ last.op = "RenameAt"
    /\ last.res.err = "NonExist"
    /\ Len(last.path) = 2
    /\ NodeAt(heap, last.node, <<last.path[1]>>) # 0
    /\ heap[last.node].kind = "Directory"

\* C8: GetPath(item, path) returns item for the empty path, the addressed
\* descendant for a path whose every step is a valid child index, and fails
\* with NonExist at the first step that does not exist.
C8_GetPathFold ==
    (last.op = "GetPath" /\ gp.status # "run") =>
        LET at == NodeAt(heap, last.node, last.path)
        IN  IF at # 0 THEN gp.status = "returned" /\ gp.cur = at
            ELSE gp.status = "NonExist"

\* Add(item) places the new child at the index equal to the previous child
\* count and leaves every existing child at its index.
AddAppends ==
    last'.op = "Add" =>
        LET old == heap[last'.node].m_contents
            new == heap'[last'.node].m_contents
        IN  /\ Len(new) = Len(old) + 1
            /\ \A k \in 1 .. Len(old) : new[k] = old[k]
            /\ new[Len(old) + 1] \notin DOMAIN heap
            /\ VariantGet(heap', last'.node, Len(old))
                  = {[err |-> "none", node |-> last'.ref]}
            /\ GetName(heap'[last'.ref]) = last'.name
            /\ \A i \in DOMAIN heap : i # last'.node => heap'[i] = heap[i]

\* Remove(idx) is called with 0 <= idx < count.
RemoveInRange ==
    /\ last'.op = "Remove"
    /\ 0 <= last'.idx
    /\ last'.idx < Len(heap[last'.node].m_contents)

\* Remove(idx) in range reduces the count by one, leaves the children below
\* idx where they were and moves each child at j > idx to j - 1.
RemoveShifts ==
    RemoveInRange =>
        LET old == heap[last'.node].m_contents
            new == heap'[last'.node].m_contents
        IN  /\ last'.res.err = "none"
            /\ Len(new) = Len(old) - 1
            /\ \A j \in 0 .. (last'.idx - 1) : new[j + 1] = old[j + 1]
            /\ \A j \in (last'.idx + 1) .. (Len(old) - 1) :
                  /\ new[j] = old[j + 1]
                  /\ heap'[old[j + 1]] = heap[old[j + 1]]
            /\ old[last'.idx + 1] \notin DOMAIN heap'

\* After the removal Get(j) addresses a child, and not the one it addressed
\* before, for every j of the given indices.
GetAddressesAnother(indices) ==
    LET old == heap[last'.node].m_contents
    IN  \A j \in indices :
           \A r \in VariantGet(heap', last'.node, j) :
              /\ r.err = "none"
              /\ r.node # old[j + 1]
              /\ \E k \in 1 .. Len(old) : r.node = old[k]

\* C9 as stated: child order is insertion order under Add and Remove, and
\* after Remove(idx) Get(j) addresses a different child than before for every
\* j >= idx.
C9_AsStated ==
    [][/\ AddAppends
       /\ RemoveShifts
       /\ RemoveInRange =>
             GetAddressesAnother(last'.idx .. (Len(heap[last'.node].m_contents) - 1))
      ]_vars

\* C9 as amended: child order is insertion order under Add and Remove; after
\* Remove(idx) in range Get(j) for idx <= j < count - 1 addresses the child
\* that was at j + 1, a different child than before, and count - 1 is no
\* index of the container any more.
C9_InsertionOrder ==
    [][/\ AddAppends
       /\ RemoveShifts
       /\ RemoveInRange =>
             LET old == heap[last'.node].m_contents
             IN  /\ GetAddressesAnother(last'.idx .. (Len(old) - 2))
                 /\ \A j \in last'.idx .. (Len(old) - 2) :
                       VariantGet(heap', last'.node, j)
                          = {[err |-> "none", node |-> old[j + 2]]}
                 /\ Len(heap'[last'.node].m_contents) = Len(old) - 1
      ]_vars

C9_Witness ==
    /\ last.op = "Remove"
    /\ last.idx = 0
    /\ last.res.err = "none"
    /\ Len(heap[last.node].m_contents) = 1

\* C10: every (node, path) Recurse reports is one N[path] yields, with the
\* same kind and name; every path N[path] resolves is reported exactly once,
\* and no path on which N[path] throws is reported.
C10_TraversalAgreesWithAddressing ==
    last.op = "Recurse" =>
        LET v == last.visits
        IN  /\ \A i \in 1 .. Len(v) :
                  LET r == PathIndex(heap, last.node, v[i].path)
                  IN  /\ r.err = "none"
                      /\ heap[r.node].kind = v[i].kind
                      /\ GetName(heap[r.node]) = v[i].name
            /\ \A p \in Paths :
                  LET r == PathIndex(heap, last.node, p)
                  IN  Cardinality({i \in 1 .. Len(v) : v[i].path = p})
                         = (IF r.err = "none" THEN 1 ELSE 0)

C10_Witness ==
    /\ last.op = "Recurse"
    /\ last.node = Root
    /\ Len(last.visits) = 3
    /\ last.visits[2].path = <<0>>
    /\ last.visits[3].path = <<1>>

====
